---- MODULE Spec2Model ----
(***************************************************************************)
(* Model of src/generator.cxx: the passphrase-sheet generator.  One sheet  *)
(* is read block by block (write_sheet_html), every block is constructed   *)
(* and validated, packed into RowGroups (RowGroup::add with the keyid      *)
(* compaction fallback) and finally rendered row by row.                   *)
(*                                                                         *)
(* Strings of the input document are sequences of one-character strings.   *)
(* Block indices are 0-based as in the source; get_block(bl, i) reads      *)
(* element i + 1 of the TLA+ sequence that models std::vector<Block>.      *)
(***************************************************************************)
EXTENDS Integers, Sequences, FiniteSets, TLC

VARIABLES pc, table_width, blocks, current_group, groups, block_index,
          g_blocks, output_file, render_pos, err,
          sheet_i, sheet_j, m_prev, cout_log

vars == <<pc, table_width, blocks, current_group, groups, block_index,
          g_blocks, output_file, render_pos, err,
          sheet_i, sheet_j, m_prev, cout_log>>

----------------------------------------------------------------------------
(* Bounds of the model.                                                    *)

\* number of data_headers entries of a sheet (validation, packing, rendering)
MaxBlocks == 3

\* number of data_headers entries of a sheet when only packing is explored
MaxPackBlocks == 4

\* number of sheets of the top-level array, and of data_headers entries of
\* each of them, when a run over several sheets is explored
MaxSheets == 2

MaxMainBlocks == 2

----------------------------------------------------------------------------
(* Program constants.                                                      *)

grid10_height == 8

\* int const shrink = 8 in try_compact_last_keyid_to_fit
shrink == 8

----------------------------------------------------------------------------
(* JSON values of the input document.                                      *)

JAbsent == [t |-> "absent", v |-> 0, s |-> <<>>]
JNull == [t |-> "null", v |-> 0, s |-> <<>>]
JInt(n) == [t |-> "int", v |-> n, s |-> <<>>]
JStr(str) == [t |-> "string", v |-> 0, s |-> str]

Digits == {"0", "1", "2", "3", "4", "5", "6", "7", "8", "9"}

DigitVal(c) ==
  CASE c = "0" -> 0 [] c = "1" -> 1 [] c = "2" -> 2 [] c = "3" -> 3
    [] c = "4" -> 4 [] c = "5" -> 5 [] c = "6" -> 6 [] c = "7" -> 7
    [] c = "8" -> 8 [] c = "9" -> 9

HexDigits == Digits \cup {"a", "b", "c", "d", "e", "f", "A", "B", "C", "D", "E", "F"}

RECURSIVE stoi_digits(_, _, _)
\* the digit loop of std::stoi: consume digits of s from position i on
stoi_digits(s, i, acc) ==
  IF i <= Len(s) /\ s[i] \in Digits
  THEN stoi_digits(s, i + 1, acc * 10 + DigitVal(s[i]))
  ELSE [value |-> acc, parsed |-> i - 1]

RECURSIVE stoi_skip_space(_, _)
stoi_skip_space(s, i) ==
  IF i <= Len(s) /\ s[i] = " " THEN stoi_skip_space(s, i + 1) ELSE i

\* std::stoi(s, &parsed, 10): leading blanks, an optional sign, digits;
\* throws std::invalid_argument when no digit could be converted
stoi(s) ==
  LET i0 == stoi_skip_space(s, 1)
      neg == i0 <= Len(s) /\ s[i0] = "-"
      i1 == IF i0 <= Len(s) /\ s[i0] \in {"-", "+"} THEN i0 + 1 ELSE i0
      d == stoi_digits(s, i1, 0)
  IN IF d.parsed < i1
     THEN [throw |-> TRUE, value |-> 0, parsed |-> 0]
     ELSE [throw |-> FALSE, value |-> IF neg THEN 0 - d.value ELSE d.value,
           parsed |-> d.parsed]

parse_int(value) ==
  IF value.t = "int" THEN [throw |-> FALSE, value |-> value.v]
  ELSE IF value.t = "string"
  THEN LET r == stoi(value.s)
       IN IF r.throw THEN [throw |-> TRUE, value |-> 0]
          ELSE IF r.parsed # Len(value.s) THEN [throw |-> TRUE, value |-> 0]
          ELSE [throw |-> FALSE, value |-> r.value]
  ELSE [throw |-> TRUE, value |-> 0]

----------------------------------------------------------------------------
(* Block geometry.                                                         *)

S_grid36 == <<"g", "r", "i", "d", "3", "6">>
S_grid10 == <<"g", "r", "i", "d", "1", "0">>

\* variant: the grid36 width leaves out the label column
data_width_grid36_short(data) ==
  IF data = S_grid36 THEN 36
  ELSE IF data = S_grid10 THEN 10
  ELSE Len(data)

data_width(data) ==
  IF data = S_grid36 THEN 37
  ELSE IF data = S_grid10 THEN 10
  ELSE Len(data)

\* variant: a plain string gets one data row too many
data_height_three(data) ==
  IF data = S_grid36 THEN 30
  ELSE IF data = S_grid10 THEN grid10_height + 1
  ELSE 3

data_height(data) ==
  IF data = S_grid36 THEN 30
  ELSE IF data = S_grid10 THEN grid10_height + 1
  ELSE 2

parse_keyid_hex16(s) ==
  LET hex == IF Len(s) >= 2 /\ s[1] = "0" /\ s[2] \in {"x", "X"}
             THEN SubSeq(s, 3, Len(s)) ELSE s
  IN IF Len(hex) # 16 THEN [throw |-> TRUE, hex |-> <<>>]
     ELSE IF \E i \in 1..Len(hex) : hex[i] \notin HexDigits
     THEN [throw |-> TRUE, hex |-> <<>>]
     ELSE [throw |-> FALSE, hex |-> hex]

get_block(bl, index) == bl[index + 1]

\* variant: the reference is always to the first block
get_block_mut_first(bl, index, b) == [bl EXCEPT ![1] = b]

\* the write through the reference returned by get_block_mut
get_block_mut(bl, index, b) == [bl EXCEPT ![index + 1] = b]

----------------------------------------------------------------------------
(* class RowGroup.                                                         *)

\* variant: the height argument is dropped
RowGroup_noheight(tw, height) ==
  [m_table_width |-> tw, m_height |-> 0, m_columns |-> <<>>, m_keyid |-> -1]

RowGroup(tw, height) ==
  [m_table_width |-> tw, m_height |-> height, m_columns |-> <<>>, m_keyid |-> -1]

empty(rg) == rg.m_columns = <<>>

RECURSIVE SumWidth(_)
SumWidth(cols) ==
  IF cols = <<>> THEN 0 ELSE cols[1].width + SumWidth(Tail(cols))

width(rg) == SumWidth(rg.m_columns)

RECURSIVE ConcatBlocks(_)
ConcatBlocks(cols) ==
  IF cols = <<>> THEN <<>> ELSE cols[1].blocks \o ConcatBlocks(Tail(cols))

blocks_in_order(rg) == ConcatBlocks(rg.m_columns)

last_column(rg) == rg.m_columns[Len(rg.m_columns)]

last_block_index(rg) ==
  LET c == last_column(rg) IN c.blocks[Len(c.blocks)]

last_column_has_single_block(rg) ==
  IF rg.m_columns = <<>> THEN FALSE
  ELSE Len(last_column(rg).blocks) = 1

Max(a, b) == IF a >= b THEN a ELSE b

new_block_added(rg, index, bl) ==
  IF get_block(bl, index).keyid_hex16 # <<>>
  THEN [rg EXCEPT !.m_keyid = index]
  ELSE rg

add_new_column(rg, index, bl) ==
  LET b == get_block(bl, index)
  IN [rg EXCEPT !.m_columns =
        Append(@, [width |-> b.width, height |-> b.height, blocks |-> <<index>>])]

\* variant: the block is stacked on the first column that has room
add_to_last_column_if_fits_first(rg, index, bl) ==
  LET col == rg.m_columns[1]
      b == get_block(bl, index)
      new_col_width == Max(col.width, b.width)
      new_total_width == width(rg) - col.width + new_col_width
  IN IF col.height + b.height > rg.m_height THEN [ok |-> FALSE, rg |-> rg]
     ELSE IF new_total_width > rg.m_table_width THEN [ok |-> FALSE, rg |-> rg]
     ELSE [ok |-> TRUE,
           rg |-> [rg EXCEPT !.m_columns[1] =
                     [width |-> new_col_width,
                      height |-> col.height + b.height,
                      blocks |-> Append(col.blocks, index)]]]

\* variant: a stacked block does not widen its column
add_to_last_column_if_fits_nowiden(rg, index, bl) ==
  LET n == Len(rg.m_columns)
      col == rg.m_columns[n]
      b == get_block(bl, index)
      new_col_width == Max(col.width, b.width)
      new_total_width == width(rg) - col.width + new_col_width
  IN IF col.height + b.height > rg.m_height THEN [ok |-> FALSE, rg |-> rg]
     ELSE IF new_total_width > rg.m_table_width THEN [ok |-> FALSE, rg |-> rg]
     ELSE [ok |-> TRUE,
           rg |-> [rg EXCEPT !.m_columns[n] =
                     [width |-> col.width,
                      height |-> col.height + b.height,
                      blocks |-> Append(col.blocks, index)]]]

\* variant: the block is stacked without the height test
add_to_last_column_if_fits_noheight(rg, index, bl) ==
  LET n == Len(rg.m_columns)
      col == rg.m_columns[n]
      b == get_block(bl, index)
      new_col_width == Max(col.width, b.width)
      new_total_width == width(rg) - col.width + new_col_width
  IN IF new_total_width > rg.m_table_width THEN [ok |-> FALSE, rg |-> rg]
     ELSE [ok |-> TRUE,
           rg |-> [rg EXCEPT !.m_columns[n] =
                     [width |-> new_col_width,
                      height |-> col.height + b.height,
                      blocks |-> Append(col.blocks, index)]]]

add_to_last_column_if_fits(rg, index, bl) ==
  LET n == Len(rg.m_columns)
      col == rg.m_columns[n]
      b == get_block(bl, index)
      new_col_width == Max(col.width, b.width)
      new_total_width == width(rg) - col.width + new_col_width
  IN IF col.height + b.height > rg.m_height THEN [ok |-> FALSE, rg |-> rg]
     ELSE IF new_total_width > rg.m_table_width THEN [ok |-> FALSE, rg |-> rg]
     ELSE [ok |-> TRUE,
           rg |-> [rg EXCEPT !.m_columns[n] =
                     [width |-> new_col_width,
                      height |-> col.height + b.height,
                      blocks |-> Append(col.blocks, index)]]]

\* variant: the new column is opened without the width test
add_new_column_if_fits_nocheck(rg, index, bl) ==
  [ok |-> TRUE, rg |-> add_new_column(rg, index, bl)]

add_new_column_if_fits(rg, index, bl) ==
  IF width(rg) + get_block(bl, index).width > rg.m_table_width
  THEN [ok |-> FALSE, rg |-> rg]
  ELSE [ok |-> TRUE, rg |-> add_new_column(rg, index, bl)]

add_fixed_height(rg, index, bl) ==
  IF rg.m_columns = <<>>
  THEN [ok |-> TRUE, rg |-> add_new_column(rg, index, bl)]
  ELSE LET r1 == add_to_last_column_if_fits(rg, index, bl)
       IN IF r1.ok THEN r1 ELSE add_new_column_if_fits(rg, index, bl)

RECURSIVE replay_fixed(_, _, _)
\* for (int const idx : all) if (!temp.add_fixed_height(idx)) return false;
replay_fixed(temp, all, bl) ==
  IF all = <<>> THEN [ok |-> TRUE, rg |-> temp]
  ELSE LET r == add_fixed_height(temp, Head(all), bl)
       IN IF ~r.ok THEN [ok |-> FALSE, rg |-> temp]
          ELSE replay_fixed(r.rg, Tail(all), bl)

\* variant: the new block is replayed before the old ones
add_grow_newfirst(rg, index, bl) ==
  LET new_height == get_block(bl, index).height
      temp == RowGroup(rg.m_table_width, new_height)
      all == <<index>> \o blocks_in_order(rg)
      r == replay_fixed(temp, all, bl)
  IN IF ~r.ok THEN [ok |-> FALSE, rg |-> rg]
     ELSE [ok |-> TRUE, rg |-> new_block_added(r.rg, index, bl)]

\* variant: a failed replay leaves the partly filled temporary in place
add_grow_keeps_temp(rg, index, bl) ==
  LET new_height == get_block(bl, index).height
      temp == RowGroup(rg.m_table_width, new_height)
      all == Append(blocks_in_order(rg), index)
      r == replay_fixed(temp, all, bl)
  IN IF ~r.ok THEN [ok |-> FALSE, rg |-> r.rg]
     ELSE [ok |-> TRUE, rg |-> new_block_added(r.rg, index, bl)]

\* the growth branch of RowGroup::add (b.height > m_height)
add_grow(rg, index, bl) ==
  LET new_height == get_block(bl, index).height
      temp == RowGroup(rg.m_table_width, new_height)
      all == Append(blocks_in_order(rg), index)
      r == replay_fixed(temp, all, bl)
  IN IF ~r.ok THEN [ok |-> FALSE, rg |-> rg]
     ELSE [ok |-> TRUE, rg |-> new_block_added(r.rg, index, bl)]

add(rg, index, bl) ==
  LET b == get_block(bl, index)
  IN IF rg.m_columns = <<>>
     THEN [ok |-> TRUE,
           rg |-> new_block_added(
                    add_new_column([rg EXCEPT !.m_height = b.height], index, bl),
                    index, bl)]
     ELSE IF b.height > rg.m_height THEN add_grow(rg, index, bl)
     ELSE LET r1 == add_to_last_column_if_fits(rg, index, bl)
              r2 == IF r1.ok THEN r1 ELSE add_new_column_if_fits(rg, index, bl)
          IN IF r2.ok
             THEN [ok |-> TRUE, rg |-> new_block_added(r2.rg, index, bl)]
             ELSE [ok |-> FALSE, rg |-> rg]

----------------------------------------------------------------------------
(* Block construction (write_sheet_html, body of the data_headers loop).   *)

\* variant: the compact form keeps the total width
compact_keyid_samewidth(keyid) ==
  [keyid EXCEPT !.keyid_compact = TRUE,
                !.content_width = @ - shrink,
                !.height = 3]

\* variant: the compact form is wider instead of narrower
compact_keyid_widens(keyid) ==
  [keyid EXCEPT !.keyid_compact = TRUE,
                !.content_width = @ - shrink,
                !.width = @ + shrink,
                !.height = 3]

\* the compact form written by try_compact_last_keyid_to_fit
compact_keyid(keyid) ==
  [keyid EXCEPT !.keyid_compact = TRUE,
                !.content_width = @ - shrink,
                !.width = @ - shrink,
                !.height = 3]

\* variant: the saved block is written back with the compact height
compact_rollback_keeps_height(bl, keyid_index, saved) ==
  get_block_mut(bl, keyid_index, [saved EXCEPT !.height = 3])

\* variant: the saved block is not written back
compact_rollback_none(bl, keyid_index, saved) == bl

\* keyid_mut = saved
compact_rollback(bl, keyid_index, saved) == get_block_mut(bl, keyid_index, saved)

RECURSIVE rebuild_replay(_, _, _)
\* for (int const idx : current_group.blocks_in_order()) if (!rebuilt.add(idx)) ...
rebuild_replay(rebuilt, order, bl) ==
  IF order = <<>> THEN [ok |-> TRUE, rg |-> rebuilt]
  ELSE LET r == add(rebuilt, Head(order), bl)
       IN IF ~r.ok THEN [ok |-> FALSE, rg |-> rebuilt]
          ELSE rebuild_replay(r.rg, Tail(order), bl)

\* variant: the key and compact-flag test is missing
compact_preconditions_anykey(cg, bl) ==
  /\ ~empty(cg)
  /\ last_column_has_single_block(cg)
  /\ LET keyid == get_block(bl, last_block_index(cg))
     IN /\ ~(last_column(cg).width # keyid.width)
        /\ ~(keyid.content_width < shrink + 2)

\* the checks that precede the mutation of the keyid block
compact_preconditions(cg, bl) ==
  /\ ~empty(cg)
  /\ last_column_has_single_block(cg)
  /\ LET keyid == get_block(bl, last_block_index(cg))
     IN /\ ~(keyid.key # "keyid" \/ keyid.keyid_compact)
        /\ ~(last_column(cg).width # keyid.width)
        /\ ~(keyid.content_width < shrink + 2)

try_compact_last_keyid_to_fit(cg, bl, new_block_index, tw) ==
  IF ~compact_preconditions(cg, bl)
  THEN [ok |-> FALSE, blocks |-> bl, current_group |-> cg]
  ELSE LET keyid_index == last_block_index(cg)
           saved == get_block(bl, keyid_index)
           mutated == get_block_mut(bl, keyid_index, compact_keyid(saved))
           r == rebuild_replay(RowGroup(tw, 0), blocks_in_order(cg), mutated)
           r2 == add(r.rg, new_block_index, mutated)
       IN IF ~r.ok
          THEN [ok |-> FALSE, blocks |-> compact_rollback(mutated, keyid_index, saved),
                current_group |-> cg]
          ELSE IF ~r2.ok
          THEN [ok |-> FALSE, blocks |-> compact_rollback(mutated, keyid_index, saved),
                current_group |-> cg]
          ELSE [ok |-> TRUE, blocks |-> mutated, current_group |-> r2.rg]

NoBlock ==
  [key |-> "", data |-> <<>>, keyid_hex16 |-> <<>>, width |-> 0,
   content_width |-> 0, height |-> 0, margin_left |-> 0, margin_right |-> 0,
   keyid_compact |-> FALSE]

\* lines 432-471: a Block from one data_headers entry, or the error thrown
make_block(key, data_value, margin_obj, tw) ==
  LET ml == IF margin_obj.left.t # "absent" THEN parse_int(margin_obj.left)
            ELSE [throw |-> FALSE, value |-> 0]
      mr == IF margin_obj.right.t # "absent" THEN parse_int(margin_obj.right)
            ELSE [throw |-> FALSE, value |-> 0]
      data == data_value.s
      content_width == IF key = "keyid" THEN 18
                       ELSE IF key = "keyid3" THEN 10 ELSE data_width(data)
      height == IF key = "keyid" THEN 2
                ELSE IF key = "keyid3" THEN 3 ELSE data_height(data)
      hex == IF key = "keyid" \/ key = "keyid3" THEN parse_keyid_hex16(data)
             ELSE [throw |-> FALSE, hex |-> <<>>]
      w == content_width + ml.value + mr.value
      Fail(msg) == [throw |-> TRUE, msg |-> msg, block |-> NoBlock]
  IN IF data_value.t = "absent" THEN Fail("key is missing from data")
     ELSE IF margin_obj.t = "absent" THEN Fail("key is missing from margins")
     ELSE IF data_value.t # "string" THEN Fail("json type error")
     ELSE IF margin_obj.t # "object" THEN Fail("margins must be an object")
     ELSE IF ml.throw THEN Fail("margin must be an integer")
     ELSE IF mr.throw THEN Fail("margin must be an integer")
     ELSE IF hex.throw THEN Fail("keyid must be 16 hex characters")
     ELSE IF w > tw THEN Fail("block has width > table width")
     ELSE [throw |-> FALSE, msg |-> "",
           block |-> [key |-> key, data |-> data, keyid_hex16 |-> hex.hex,
                      width |-> w, content_width |-> content_width,
                      height |-> height, margin_left |-> ml.value,
                      margin_right |-> mr.value,
                      keyid_compact |-> (key = "keyid3")]]

----------------------------------------------------------------------------
(* Renderer.                                                               *)

Cell(class, colspan, rowspan, text) ==
  [class |-> class, colspan |-> colspan, rowspan |-> rowspan, text |-> text]

write_empty_span(colspan) ==
  IF colspan <= 0 THEN <<>> ELSE <<Cell("", colspan, 1, "<br>")>>

write_block_header_row(block) ==
  write_empty_span(block.margin_left)
    \o <<Cell("header", block.content_width, 1, "header")>>
    \o write_empty_span(block.margin_right)

CharCells(class, str) == [i \in 1..Len(str) |-> Cell(class, 1, 1, str[i])]

S_digits == <<"0", "1", "2", "3", "4", "5", "6", "7", "8", "9">>

S_alphabet ==
  <<"-", "A", "B", "C", "D", "E", "F", "G", "H", "I", "J", "K", "L", "M",
    "N", "O", "P", "Q", "R", "S", "T", "U", "V", "W", "X", "Y", "Z">> \o S_digits

\* variant: the plain-text branch rejects every data row
write_block_data_row_throws(block, data_row_index) ==
  LET left == write_empty_span(block.margin_left)
      right == write_empty_span(block.margin_right)
      Ok(cells) == [throw |-> FALSE, cells |-> left \o cells \o right]
      Throw == [throw |-> TRUE, cells |-> left]
  IN IF block.key = "keyid" \/ block.key = "keyid3"
     THEN Ok(<<Cell("data", 2, 1, "0 x")>> \o CharCells("data", block.keyid_hex16))
     ELSE IF block.data = S_grid10 THEN Ok(CharCells("", S_digits))
     ELSE IF block.data = S_grid36 THEN Ok(CharCells("", S_alphabet))
     ELSE Throw

\* variant: the separator is placed by the row of the block, header included
write_block_data_row_hdrcount(block, data_row_index) ==
  LET left == write_empty_span(block.margin_left)
      right == write_empty_span(block.margin_right)
      Ok(cells) == [throw |-> FALSE, cells |-> left \o cells \o right]
      Throw == [throw |-> TRUE, cells |-> left]
  IN IF block.key = "keyid" \/ block.key = "keyid3"
     THEN IF block.keyid_compact
          THEN IF data_row_index = 0
               THEN Ok(<<Cell("data", 2, 2, "0 x")>>
                         \o CharCells("data", SubSeq(block.keyid_hex16, 1, 8)))
               ELSE IF data_row_index = 1
               THEN Ok(CharCells("data", SubSeq(block.keyid_hex16, 9, 16)))
               ELSE Throw
          ELSE Ok(<<Cell("data", 2, 1, "0 x")>> \o CharCells("data", block.keyid_hex16))
     ELSE IF block.data = S_grid10 THEN Ok(CharCells("", S_digits))
     ELSE IF block.data = S_grid36
     THEN IF (data_row_index + 1) % 5 < 4
          THEN Ok(CharCells("", S_alphabet))
          ELSE Ok(<<Cell("", 1, 1, "-"), Cell("", 36, 1, "")>>)
     ELSE IF data_row_index # 0 THEN Throw
     ELSE Ok(CharCells("data", block.data))

\* throw: the internal-error exceptions; cells: what was written before
write_block_data_row(block, data_row_index) ==
  LET left == write_empty_span(block.margin_left)
      right == write_empty_span(block.margin_right)
      Ok(cells) == [throw |-> FALSE, cells |-> left \o cells \o right]
      Throw == [throw |-> TRUE, cells |-> left]
  IN IF block.key = "keyid" \/ block.key = "keyid3"
     THEN IF block.keyid_compact
          THEN IF data_row_index = 0
               THEN Ok(<<Cell("data", 2, 2, "0 x")>>
                         \o CharCells("data", SubSeq(block.keyid_hex16, 1, 8)))
               ELSE IF data_row_index = 1
               THEN Ok(CharCells("data", SubSeq(block.keyid_hex16, 9, 16)))
               ELSE Throw
          ELSE Ok(<<Cell("data", 2, 1, "0 x")>> \o CharCells("data", block.keyid_hex16))
     ELSE IF block.data = S_grid10 THEN Ok(CharCells("", S_digits))
     ELSE IF block.data = S_grid36
     THEN IF data_row_index % 5 < 4
          THEN Ok(CharCells("", S_alphabet))
          ELSE Ok(<<Cell("", 1, 1, "-"), Cell("", 36, 1, "")>>)
     ELSE IF data_row_index # 0 THEN Throw
     ELSE Ok(CharCells("data", block.data))

RECURSIVE find_block_scan(_, _, _, _)
find_block_scan(col_blocks, row_offset, cursor, bl) ==
  IF col_blocks = <<>> THEN [found |-> FALSE, block_row |-> 0, block_index |-> -1]
  ELSE LET b == get_block(bl, Head(col_blocks))
       IN IF row_offset < cursor + b.height
          THEN [found |-> TRUE, block_row |-> row_offset - cursor,
                block_index |-> Head(col_blocks)]
          ELSE find_block_scan(Tail(col_blocks), row_offset, cursor + b.height, bl)

find_block_at_row(col, row_offset, bl) == find_block_scan(col.blocks, row_offset, 0, bl)

\* variant: the column is not padded to its width after a block's row
render_column_nopad(col, row_offset, bl) ==
  LET f == find_block_at_row(col, row_offset, bl)
      b == get_block(bl, f.block_index)
      d == write_block_data_row(b, f.block_row - 1)
  IN IF ~f.found THEN [throw |-> FALSE, cells |-> write_empty_span(col.width)]
     ELSE IF f.block_row = 0
     THEN [throw |-> FALSE, cells |-> write_block_header_row(b)]
     ELSE d

\* lines 596-611: the cells one column contributes to the row at row_offset
render_column(col, row_offset, bl) ==
  LET f == find_block_at_row(col, row_offset, bl)
      b == get_block(bl, f.block_index)
      d == write_block_data_row(b, f.block_row - 1)
  IN IF ~f.found THEN [throw |-> FALSE, cells |-> write_empty_span(col.width)]
     ELSE IF f.block_row = 0
     THEN [throw |-> FALSE,
           cells |-> write_block_header_row(b) \o write_empty_span(col.width - b.width)]
     ELSE IF d.throw THEN d
     ELSE [throw |-> FALSE, cells |-> d.cells \o write_empty_span(col.width - b.width)]

RECURSIVE render_columns(_, _, _)
render_columns(cols, row_offset, bl) ==
  IF cols = <<>> THEN [throw |-> FALSE, cells |-> <<>>]
  ELSE LET c == render_column(Head(cols), row_offset, bl)
           rest == render_columns(Tail(cols), row_offset, bl)
       IN IF c.throw THEN c
          ELSE [throw |-> rest.throw, cells |-> c.cells \o rest.cells]

Item(tag, cells, closed) == [tag |-> tag, cells |-> cells, closed |-> closed]

\* lines 591-615: one <tr> ... </tr>
render_row(group, row_offset, bl, tw) ==
  LET c == render_columns(group.m_columns, row_offset, bl)
  IN IF c.throw THEN [throw |-> TRUE, item |-> Item("tr", c.cells, FALSE)]
     ELSE [throw |-> FALSE,
           item |-> Item("tr", c.cells \o write_empty_span(tw - width(group)), TRUE)]

RECURSIVE render_rows(_, _, _, _)
\* for (int row_offset = 0; row_offset < group.height(); ++row_offset)
render_rows(group, row_offset, bl, tw) ==
  IF ~(row_offset < group.m_height) THEN [throw |-> FALSE, items |-> <<>>]
  ELSE LET r == render_row(group, row_offset, bl, tw)
           rest == render_rows(group, row_offset + 1, bl, tw)
       IN IF r.throw THEN [throw |-> TRUE, items |-> <<r.item>>]
          ELSE [throw |-> rest.throw, items |-> <<r.item>> \o rest.items]

----------------------------------------------------------------------------
(* The input documents the model draws from.                               *)

S_hex16 == <<"0", "1", "2", "3", "4", "5", "6", "7", "8", "9", "a", "B", "c", "D", "e", "F">>

S_hello == <<"H", "E", "L", "L", "O">>
S_text12 == <<"a", "<", "b", ">", "c", "&", "d", "e", "f", "g", "h", "i">>
S_text14 == <<"p", "a", "s", "s", "p", "h", "r", "a", "s", "e", "1", "2", "3", "4">>
S_badhex == <<"0", "x", "Z", "Z", "Z", "Z">>

MarginObj(t, left, right) == [t |-> t, left |-> left, right |-> right]

NoMargins == MarginObj("object", JAbsent, JAbsent)

BlockInput(key, data, margins) == [key |-> key, data |-> data, margins |-> margins]

\* data_headers entries that make a Block (when the table is wide enough);
\* key "other" stands for a key that is neither "keyid" nor "keyid3"
GoodInputs ==
  { BlockInput("other", JStr(<<>>), NoMargins),
    BlockInput("other", JStr(S_hello), MarginObj("object", JInt(2), JInt(2))),
    BlockInput("other", JStr(S_hello), MarginObj("object", JStr(<<"-", "1", "0">>), JAbsent)),
    BlockInput("other", JStr(S_text12), MarginObj("object", JAbsent, JInt(-1))),
    BlockInput("other", JStr(S_text12), NoMargins),
    BlockInput("other", JStr(S_text14), NoMargins),
    BlockInput("other", JStr(S_grid10), NoMargins),
    BlockInput("other", JStr(S_grid36), NoMargins),
    BlockInput("other", JStr(S_grid36), MarginObj("object", JStr(<<"2">>), JStr(<<" ", "+", "1">>))),
    BlockInput("keyid", JStr(S_hex16), NoMargins),
    BlockInput("keyid", JStr(<<"0", "x">> \o S_hex16), MarginObj("object", JInt(1), JInt(1))),
    BlockInput("keyid3", JStr(<<"0", "X">> \o S_hex16), NoMargins) }

\* data_headers entries that are rejected
BadInputs ==
  { BlockInput("other", JAbsent, NoMargins),
    BlockInput("other", JNull, NoMargins),
    BlockInput("other", JStr(S_hello), MarginObj("absent", JAbsent, JAbsent)),
    BlockInput("other", JStr(S_hello), MarginObj("null", JAbsent, JAbsent)),
    BlockInput("other", JStr(S_hello), MarginObj("object", JStr(<<"2", "x">>), JAbsent)),
    BlockInput("other", JStr(S_hello), MarginObj("object", JAbsent, JStr(<<"x">>))),
    BlockInput("other", JStr(S_hello), MarginObj("object", JNull, JAbsent)),
    BlockInput("keyid", JStr(S_badhex), NoMargins),
    BlockInput("keyid", JStr(S_grid10), NoMargins),
    BlockInput("keyid3", JStr(S_hex16 \o <<"0">>), NoMargins) }

BlockInputs == GoodInputs \cup BadInputs

\* the table widths the packing-only specification draws from
PackTableWidthValues == { JInt(20), JStr(<<"3", "0">>), JInt(40) }

\* keys of data_headers entries other than the two key-identifier keys; a
\* JSON object has each key once, so the n-th entry may use the n-th of them
OtherKeys == <<"greeting", "k2", "k3", "k4", "k5", "k6", "k7", "k8">>

TableWidthValues ==
  { JInt(20), JStr(<<"3", "0">>), JInt(40), JStr(<<"4", "0", " ">>), JNull, JAbsent }

SheetShapes == {"ok", "no title", "data_headers not object", "data not object",
                "margins not object", "no data_headers"}

\* the keys of the entries of this sheet that were read so far
KeysUsed == {sheet_j.entries[i].key : i \in 1..Len(sheet_j.entries)}

----------------------------------------------------------------------------
(* write_sheet_html as a state machine.                                    *)

\* BlocksScope(blocks): m_prev(g_blocks), g_blocks = &blocks
BlocksScope(prev_g_blocks) == [g_blocks |-> "blocks", m_prev |-> prev_g_blocks]

\* ~BlocksScope(): g_blocks = m_prev
BlocksScope_dtor_keep(prev) == "blocks"

BlocksScope_dtor(prev) == prev

\* std::vector<Block> blocks; of one call of write_sheet_html
new_blocks_static == blocks

new_blocks == <<>>

\* std::vector<RowGroup> groups; of one call of write_sheet_html
new_groups == <<>>

Init ==
  /\ pc = "begin"
  /\ table_width = 0
  /\ blocks = <<>>
  /\ current_group = RowGroup(0, 0)
  /\ groups = <<>>
  /\ block_index = -1
  /\ g_blocks = "nullptr"
  /\ output_file = <<>>
  /\ render_pos = 0
  /\ err = ""
  /\ sheet_i = 0
  /\ sheet_j = [width |-> JAbsent, entries |-> <<>>]
  /\ m_prev = "nullptr"
  /\ cout_log = <<>>

Throw(msg) ==
  /\ pc' = "error"
  /\ err' = msg

\* lines 405-428: title, table width, the three objects, BlocksScope
SheetBeginOn(shapes, widths) ==
  /\ pc = "begin"
  /\ \E shape \in shapes, wv \in widths :
       LET tw == parse_int(wv)
       IN /\ sheet_j' = [width |-> wv, entries |-> <<>>]
          /\ IF shape = "no title" \/ wv.t = "absent"
             THEN /\ Throw("json out_of_range")
                  /\ UNCHANGED <<table_width, current_group, g_blocks, m_prev,
                                 blocks, groups>>
             ELSE IF tw.throw
             THEN /\ Throw("table.width must be an integer")
                  /\ UNCHANGED <<table_width, current_group, g_blocks, m_prev,
                                 blocks, groups>>
             ELSE IF shape = "no data_headers"
             THEN /\ Throw("json out_of_range")
                  /\ table_width' = tw.value
                  /\ UNCHANGED <<current_group, g_blocks, m_prev, blocks, groups>>
             ELSE IF shape # "ok"
             THEN /\ Throw(shape)
                  /\ table_width' = tw.value
                  /\ UNCHANGED <<current_group, g_blocks, m_prev, blocks, groups>>
             ELSE /\ table_width' = tw.value
                  /\ blocks' = new_blocks
                  /\ g_blocks' = BlocksScope(g_blocks).g_blocks
                  /\ m_prev' = BlocksScope(g_blocks).m_prev
                  /\ groups' = new_groups
                  /\ current_group' = RowGroup(tw.value, 0)
                  /\ pc' = "loop"
                  /\ err' = err
  /\ UNCHANGED <<block_index, output_file, render_pos, sheet_i, cout_log>>

SheetBegin == SheetBeginOn(SheetShapes, TableWidthValues)

\* lines 430-474: the next data_headers entry is read and its Block built
NextHeaderOn(inputs, max_blocks) ==
  /\ pc = "loop"
  /\ Len(sheet_j.entries) < max_blocks
  /\ \E inp \in inputs :
       /\ inp.key \notin KeysUsed
       /\ LET key == IF inp.key = "other"
                     THEN OtherKeys[Len(sheet_j.entries) + 1] ELSE inp.key
              r == make_block(key, inp.data, inp.margins, table_width)
          IN /\ sheet_j' = [sheet_j EXCEPT !.entries =
                              Append(@, BlockInput(key, inp.data, inp.margins))]
             /\ IF r.throw
                THEN /\ Throw(r.msg)
                     /\ g_blocks' = BlocksScope_dtor(m_prev)
                     /\ UNCHANGED <<blocks, block_index>>
                ELSE /\ blocks' = Append(blocks, r.block)
                     /\ block_index' = Len(blocks)
                     /\ pc' = "add"
                     /\ UNCHANGED <<err, g_blocks>>
  /\ UNCHANGED <<table_width, current_group, groups, output_file, render_pos,
                 sheet_i, m_prev, cout_log>>

NextHeader == NextHeaderOn(BlockInputs, MaxBlocks)

\* line 519: if (current_group.add(block_index)) continue;
DirectAdd ==
  /\ pc = "add"
  /\ LET r == add(current_group, block_index, blocks)
     IN /\ current_group' = r.rg
        /\ pc' = IF r.ok THEN "loop" ELSE "compact"
  /\ UNCHANGED <<table_width, blocks, groups, block_index, g_blocks,
                 output_file, render_pos, err, sheet_i, sheet_j, m_prev,
                 cout_log>>

\* line 522: if (try_compact_last_keyid_to_fit(block_index)) continue;
TryCompact ==
  /\ pc = "compact"
  /\ LET r == try_compact_last_keyid_to_fit(current_group, blocks, block_index,
                                            table_width)
     IN /\ blocks' = r.blocks
        /\ current_group' = r.current_group
        /\ pc' = IF r.ok THEN "loop" ELSE "newgroup"
  /\ UNCHANGED <<table_width, groups, block_index, g_blocks, output_file,
                 render_pos, err, sheet_i, sheet_j, m_prev, cout_log>>

\* lines 525-530: finalize the current RowGroup and start a new one
StartNewGroup ==
  /\ pc = "newgroup"
  /\ groups' = IF ~empty(current_group) THEN Append(groups, current_group) ELSE groups
  /\ LET r == add(RowGroup(table_width, 0), block_index, blocks)
     IN IF ~r.ok
        THEN /\ Throw("internal error: failed to start new RowGroup")
             /\ current_group' = RowGroup(table_width, 0)
             /\ g_blocks' = BlocksScope_dtor(m_prev)
        ELSE /\ current_group' = r.rg
             /\ pc' = "loop"
             /\ UNCHANGED <<err, g_blocks>>
  /\ UNCHANGED <<table_width, blocks, block_index, output_file, render_pos,
                 sheet_i, sheet_j, m_prev, cout_log>>

\* lines 558-565: what is written before the first row
sheet_prologue == <<Item("sheet_open", <<>>, TRUE)>>

\* lines 619-620
sheet_epilogue == <<Item("sheet_close", <<>>, TRUE)>>

\* lines 533-565: the last RowGroup is appended, the layout is printed to
\* std::cout (kept here with the document it was computed from), the sheet
\* and table are opened
FinishPacking ==
  /\ pc = "loop"
  /\ groups' = IF ~empty(current_group) THEN Append(groups, current_group) ELSE groups
  /\ cout_log' = Append(cout_log, [input |-> sheet_j, groups |-> groups',
                                   blocks |-> blocks])
  /\ current_group' = [current_group EXCEPT !.m_columns = <<>>]
  /\ output_file' = output_file \o sheet_prologue
  /\ render_pos' = 0
  /\ pc' = "render"
  /\ UNCHANGED <<table_width, blocks, block_index, g_blocks, err, sheet_i,
                 sheet_j, m_prev>>

\* lines 567-617: all rows of the next RowGroup
RenderGroup ==
  /\ pc = "render"
  /\ render_pos < Len(groups)
  /\ LET r == render_rows(groups[render_pos + 1], 0, blocks, table_width)
     IN /\ output_file' = output_file \o r.items
        /\ IF r.throw
           THEN /\ Throw("internal error: unexpected data_row_index")
                /\ g_blocks' = BlocksScope_dtor(m_prev)
                /\ UNCHANGED render_pos
           ELSE /\ render_pos' = render_pos + 1
                /\ UNCHANGED <<pc, err, g_blocks>>
  /\ UNCHANGED <<table_width, blocks, current_group, groups, block_index,
                 sheet_i, sheet_j, m_prev, cout_log>>

\* lines 619-621: the table and the sheet are closed, BlocksScope ends
RenderEnd ==
  /\ pc = "render"
  /\ render_pos = Len(groups)
  /\ output_file' = output_file \o sheet_epilogue
  /\ g_blocks' = BlocksScope_dtor(m_prev)
  /\ pc' = "done"
  /\ UNCHANGED <<table_width, blocks, current_group, groups, block_index,
                 render_pos, err, sheet_i, sheet_j, m_prev, cout_log>>

Next ==
  \/ SheetBegin
  \/ NextHeader
  \/ DirectAdd
  \/ TryCompact
  \/ StartNewGroup
  \/ FinishPacking
  \/ RenderGroup
  \/ RenderEnd

Spec == Init /\ [][Next]_vars

(* Packing only: accepted sheets, longer block sequences, no rendering.    *)

SheetBeginPack == SheetBeginOn({"ok"}, PackTableWidthValues)

NextHeaderPack == NextHeaderOn(GoodInputs, MaxPackBlocks)

NextPack ==
  \/ SheetBeginPack
  \/ NextHeaderPack
  \/ DirectAdd
  \/ TryCompact
  \/ StartNewGroup
  \/ FinishPacking

SpecPack == Init /\ [][NextPack]_vars

(* main: the sheets of the top-level array, one write_sheet_html call each, *)
(* in one process.  The locals of a finished call keep their last values    *)
(* until the next call constructs them anew.                                *)

MainInputs ==
  { BlockInput("keyid", JStr(S_hex16), NoMargins),
    BlockInput("other", JStr(S_hello), MarginObj("object", JInt(2), JInt(2))),
    BlockInput("other", JStr(S_text14), NoMargins),
    BlockInput("other", JStr(S_hello), MarginObj("object", JStr(<<"2", "x">>), JAbsent)) }

MainTableWidthValues == { JInt(20), JStr(<<"3", "0">>) }

SheetBeginMain == SheetBeginOn({"ok", "no title"}, MainTableWidthValues)

NextHeaderMain == NextHeaderOn(MainInputs, MaxMainBlocks)

\* lines 678-686: the call returned; ++i, the next element must be an object
MainNextSheet ==
  /\ pc = "done"
  /\ sheet_i + 1 < MaxSheets
  /\ sheet_i' = sheet_i + 1
  /\ \E is_object \in BOOLEAN :
       IF is_object
       THEN pc' = "begin" /\ err' = err
       ELSE Throw("top-level array element must be an object")
  /\ UNCHANGED <<table_width, blocks, current_group, groups, block_index,
                 g_blocks, output_file, render_pos, sheet_j, m_prev, cout_log>>

\* lines 688-689: the loop has ended, the document is closed
MainEnd ==
  /\ pc = "done"
  /\ output_file' = output_file \o <<Item("html_close", <<>>, TRUE)>>
  /\ pc' = "exit"
  /\ UNCHANGED <<table_width, blocks, current_group, groups, block_index,
                 g_blocks, render_pos, err, sheet_i, sheet_j, m_prev, cout_log>>

NextMain ==
  \/ SheetBeginMain
  \/ NextHeaderMain
  \/ DirectAdd
  \/ TryCompact
  \/ StartNewGroup
  \/ FinishPacking
  \/ RenderGroup
  \/ RenderEnd
  \/ MainNextSheet
  \/ MainEnd

SpecMain == Init /\ [][NextMain]_vars

----------------------------------------------------------------------------
(* Properties.                                                             *)

RECURSIVE PlacedIn(_)
\* blocks_in_order() of a list of RowGroups, concatenated
PlacedIn(gs) ==
  IF gs = <<>> THEN <<>> ELSE blocks_in_order(gs[1]) \o PlacedIn(Tail(gs))

RowGroupFits(rg) ==
  /\ width(rg) <= table_width
  /\ \A c \in 1..Len(rg.m_columns) : rg.m_columns[c].height <= rg.m_height

SomeKeyidCompacted ==
  \E i \in 1..Len(blocks) : blocks[i].key = "keyid" /\ blocks[i].keyid_compact

\* C1: the current RowGroup and every RowGroup already appended to the
\* output have a total column width <= table width and no column higher
\* than the RowGroup, at every point of the packing loop.
C1_RowGroupsFit ==
  /\ RowGroupFits(current_group)
  /\ \A g \in 1..Len(groups) : RowGroupFits(groups[g])

\* a finalized RowGroup, and a current one that was rebuilt by a compaction
\* and holds a column of two blocks next to another column
C1_Witness ==
  /\ pc = "loop"
  /\ Len(groups) >= 1
  /\ SomeKeyidCompacted
  /\ Len(current_group.m_columns) >= 2
  /\ \E c \in 1..Len(current_group.m_columns) :
       Len(current_group.m_columns[c].blocks) >= 2

\* C2: when all blocks are consumed, the blocks of the output RowGroups in
\* output order are exactly 0, 1, ..., n-1.
C2_PlacedOnceInOrder ==
  pc \in {"render", "done"} =>
    PlacedIn(groups) = [i \in 1..Len(blocks) |-> i - 1]

C2_Witness ==
  /\ pc = "render"
  /\ Len(blocks) >= 4
  /\ Len(groups) >= 2
  /\ SomeKeyidCompacted
  /\ \E g \in 1..Len(groups) : \E c \in 1..Len(groups[g].m_columns) :
       Len(groups[g].m_columns[c].blocks) >= 2

RECURSIVE SpanSum(_)
\* the colspans of a sequence of cells, added up
SpanSum(cells) ==
  IF cells = <<>> THEN 0 ELSE cells[1].colspan + SpanSum(Tail(cells))

RECURSIVE CarriedSum(_)
\* the colspans of the cells that also cover the next row (rowspan=2)
CarriedSum(cells) ==
  IF cells = <<>> THEN 0
  ELSE (IF cells[1].rowspan = 2 THEN cells[1].colspan ELSE 0) + CarriedSum(Tail(cells))

RECURSIVE HeightSum(_)
HeightSum(gs) == IF gs = <<>> THEN 0 ELSE gs[1].m_height + HeightSum(Tail(gs))

\* position in output_file of the row at row_offset of the g-th RowGroup
RowItemIndex(g, row_offset) ==
  Len(sheet_prologue) + HeightSum(SubSeq(groups, 1, g - 1)) + row_offset + 1

NegPart(n) == IF n < 0 THEN 0 - n ELSE 0

RECURSIVE SuppressedIn(_, _)
\* what write_empty_span leaves out on one row: the negative margins of the
\* blocks on the row and the negative widths of the columns empty there
SuppressedIn(cols, row_offset) ==
  IF cols = <<>> THEN 0
  ELSE LET f == find_block_at_row(cols[1], row_offset, blocks)
           b == get_block(blocks, f.block_index)
       IN (IF f.found THEN NegPart(b.margin_left) + NegPart(b.margin_right)
           ELSE NegPart(cols[1].width))
          + SuppressedIn(Tail(cols), row_offset)

RenderedGroups == IF pc = "done" THEN Len(groups) ELSE render_pos

NoNegativeMargin ==
  \A i \in 1..Len(blocks) : blocks[i].margin_left >= 0 /\ blocks[i].margin_right >= 0

\* C3 as stated: on every rendered row the emitted colspans add up to the
\* table width (read here on the sheets whose margins are all non-negative,
\* the input the specification allows).
C3_EveryRowSumsToTableWidth ==
  NoNegativeMargin =>
    \A k \in 1..Len(output_file) :
      output_file[k].tag = "tr" => SpanSum(output_file[k].cells) = table_width

\* C3 amended: on every rendered row the emitted colspans, plus the colspans
\* of the rowspan=2 cells emitted on the row above, add up to the table width
\* plus the negative margins and negative widths of empty columns for which
\* no blank cell is written.
C3_RowSpansWithCarry ==
  pc \in {"render", "done"} =>
    \A g \in 1..RenderedGroups : \A r \in 0..(groups[g].m_height - 1) :
      LET k == RowItemIndex(g, r)
          above == IF output_file[k - 1].tag = "tr"
                   THEN CarriedSum(output_file[k - 1].cells) ELSE 0
      IN /\ k <= Len(output_file)
         /\ output_file[k].tag = "tr"
         /\ output_file[k].closed
         /\ SpanSum(output_file[k].cells) + above
              = table_width + SuppressedIn(groups[g].m_columns, r)

\* a fully rendered sheet with a row under a rowspan=2 label cell, a row with
\* a suppressed negative margin and a RowGroup of several columns
C3_Witness ==
  /\ pc = "done"
  /\ \E k \in 2..Len(output_file) :
       /\ output_file[k].tag = "tr"
       /\ CarriedSum(output_file[k - 1].cells) = 2
       /\ SpanSum(output_file[k].cells) = table_width - 2
  /\ \E g \in 1..Len(groups) :
       /\ Len(groups[g].m_columns) >= 2
       /\ SuppressedIn(groups[g].m_columns, 0) > 0

\* C4: a block changes only by compaction, and then it was the single block
\* of the last column of the current RowGroup, had key "keyid", was not
\* compact and was as wide as its column; afterwards it has height 3, the
\* compact flag, and width and content width smaller by 8.
C4_CompactionOnlyOnLoneKeyid ==
  [][\A i \in 1..Len(blocks) :
       blocks'[i] # blocks[i] =>
         /\ ~empty(current_group)
         /\ Len(last_column(current_group).blocks) = 1
         /\ last_column(current_group).blocks[1] = i - 1
         /\ blocks[i].key = "keyid"
         /\ ~blocks[i].keyid_compact
         /\ last_column(current_group).width = blocks[i].width
         /\ blocks'[i].height = 3
         /\ blocks'[i].keyid_compact
         /\ blocks'[i].width = blocks[i].width - 8
         /\ blocks'[i].content_width = blocks[i].content_width - 8
         /\ blocks'[i].margin_left = blocks[i].margin_left
         /\ blocks'[i].margin_right = blocks[i].margin_right]_vars

\* a keyid block with margins was compacted while other columns precede it
C4_Witness ==
  /\ pc = "loop"
  /\ \E i \in 1..Len(blocks) :
       /\ blocks[i].key = "keyid"
       /\ blocks[i].keyid_compact
       /\ blocks[i].margin_left > 0
       /\ i >= 2
       /\ i - 1 \in {blocks_in_order(current_group)[j] :
                       j \in 1..Len(blocks_in_order(current_group))}

\* C5: when try_compact_last_keyid_to_fit returns false, every block and the
\* current RowGroup are as before the call.
C5_FailedCompactionRestores ==
  [][(pc = "compact" /\ pc' = "newgroup") =>
       (blocks' = blocks /\ current_group' = current_group)]_vars

\* the fallback failed after the keyid block had been shrunk: the
\* preconditions held and the rebuild was rejected
C5_Witness ==
  /\ pc = "newgroup"
  /\ compact_preconditions(current_group, blocks)
  /\ Len(current_group.m_columns) >= 2

BlockSet(rg) == {blocks_in_order(rg)[j] : j \in 1..Len(blocks_in_order(rg))}

\* C6 as stated: in the final layout a block as wide as the table is the only
\* block of its RowGroup.
C6_FullWidthBlockAlone ==
  pc \in {"render", "done"} =>
    \A g \in 1..Len(groups) : \A i \in BlockSet(groups[g]) :
      get_block(blocks, i).width = table_width => blocks_in_order(groups[g]) = <<i>>

\* C6 amended: in the final layout a block whose width (after any compaction)
\* equals the table width is the only block of its RowGroup unless that
\* RowGroup also holds a block of width <= 0.
C6_FullWidthAloneButForEmpty ==
  pc \in {"render", "done"} =>
    \A g \in 1..Len(groups) : \A i \in BlockSet(groups[g]) :
      get_block(blocks, i).width = table_width =>
        \/ blocks_in_order(groups[g]) = <<i>>
        \/ \E j \in BlockSet(groups[g]) : get_block(blocks, j).width <= 0

\* a full-width block alone in the middle RowGroup of a final layout whose
\* other blocks all have positive width
C6_Witness ==
  /\ pc = "render"
  /\ Len(groups) >= 3
  /\ \A i \in 1..Len(blocks) : blocks[i].width > 0
  /\ \E g \in 2..(Len(groups) - 1) :
       /\ Len(blocks_in_order(groups[g])) = 1
       /\ get_block(blocks, blocks_in_order(groups[g])[1]).width = table_width

\* C7: no block has a negative left or right margin.
C7_NoNegativeMargin == NoNegativeMargin

\* C8: a sheet whose processing raised an error has no output; output exists
\* only once every block is constructed and packed, and a finished sheet is
\* closed with every row complete.
C8_NoPartialOutput ==
  /\ pc = "error" => output_file = <<>>
  /\ output_file # <<>> =>
       /\ pc \in {"render", "done"}
       /\ Len(PlacedIn(groups)) = Len(blocks)
       /\ output_file[1].tag = "sheet_open"
       /\ \A k \in 1..Len(output_file) : output_file[k].closed
  /\ pc = "done" =>
       /\ output_file[Len(output_file)].tag = "sheet_close"
       /\ Len(output_file) = Len(sheet_prologue) + HeightSum(groups) + Len(sheet_epilogue)

\* a sheet rejected at its third entry, after two blocks had been packed
C8_Witness ==
  /\ pc = "error"
  /\ Len(blocks) >= 2
  /\ ~empty(current_group)
  /\ output_file = <<>>

\* C9: a height-growth attempt that fails leaves the RowGroup as it was; one
\* that succeeds gives it the new block's height and the old blocks in
\* their order followed by the new block.
C9_GrowthAllOrNothing ==
  [][(/\ pc = "add"
      /\ ~empty(current_group)
      /\ get_block(blocks, block_index).height > current_group.m_height) =>
       /\ pc' = "compact" => current_group' = current_group
       /\ pc' = "loop" =>
            /\ current_group'.m_height = get_block(blocks, block_index).height
            /\ blocks_in_order(current_group')
                 = Append(blocks_in_order(current_group), block_index)
       /\ pc' \in {"compact", "loop"}]_vars

\* a growth attempt on a RowGroup of two columns was rejected
C9_Witness ==
  /\ pc = "compact"
  /\ Len(current_group.m_columns) >= 2
  /\ get_block(blocks, block_index).height > current_group.m_height

InternalErrors ==
  {"internal error: failed to start new RowGroup",
   "internal error: unexpected data_row_index"}

\* the data rows the renderer asks of a block are 0 .. height - 2
DataRowsAsked(b) == 0..(b.height - 2)

\* C10: no internal error is raised: a block always fits the fresh RowGroup,
\* a plain-text block is asked for data row 0 only, a key-identifier block
\* for row 0 (non-compact) or rows 0 and 1 (compact).
C10_NoInternalError ==
  /\ err \notin InternalErrors
  /\ \A i \in 1..Len(blocks) :
       LET b == blocks[i]
       IN IF b.key \in {"keyid", "keyid3"}
          THEN DataRowsAsked(b) = (IF b.keyid_compact THEN {0, 1} ELSE {0})
          ELSE b.data \notin {S_grid10, S_grid36} => DataRowsAsked(b) = {0}

\* a rendered sheet in which a block failed the direct add and the
\* compaction and started a new RowGroup, with a keyid block compacted
C10_Witness ==
  /\ pc = "done"
  /\ Len(groups) >= 2
  /\ SomeKeyidCompacted
  /\ \E i \in 1..Len(blocks) :
       blocks[i].key \notin {"keyid", "keyid3"} /\ blocks[i].data \notin {S_grid10, S_grid36}


\* the current RowGroup is one non-compact keyid block, and the new block
\* fits beside it only once the keyid block is 8 narrower
LoneKeyidNeedsRoom ==
  /\ pc \in {"add", "compact"}
  /\ Len(blocks_in_order(current_group)) = 1
  /\ LET k == get_block(blocks, blocks_in_order(current_group)[1])
         b == get_block(blocks, block_index)
     IN /\ k.key = "keyid"
        /\ ~k.keyid_compact
        /\ k.width + b.width > table_width
        /\ (k.width - 8) + b.width <= table_width

\* C11: when the current RowGroup is a single non-compact keyid block of
\* width k and the next block b has k + width(b) > table width and
\* (k - 8) + width(b) <= table width, the direct add fails, the fallback
\* succeeds, and both blocks are in the current RowGroup with the keyid block
\* at width k - 8, height 3 and compact.
C11_CompactionMakesRoom ==
  [][LoneKeyidNeedsRoom =>
       LET ki == blocks_in_order(current_group)[1]
       IN /\ pc = "add" => (pc' = "compact" /\ current_group' = current_group)
          /\ pc = "compact" =>
               /\ pc' = "loop"
               /\ blocks_in_order(current_group') = <<ki, block_index>>
               /\ get_block(blocks', ki).width = get_block(blocks, ki).width - 8
               /\ get_block(blocks', ki).height = 3
               /\ get_block(blocks', ki).keyid_compact
               /\ groups' = groups]_vars

\* Scenario C: table width 30, keyid (18) then a block of width 14 share the
\* current RowGroup, the keyid block compact at width 10
C11_Witness ==
  /\ pc = "loop"
  /\ table_width = 30
  /\ Len(blocks) = 2
  /\ blocks[1].key = "keyid" /\ blocks[1].keyid_compact /\ blocks[1].width = 10
  /\ blocks[2].width = 14
  /\ blocks_in_order(current_group) = <<0, 1>>
  /\ Len(current_group.m_columns) = 2

\* C12: a step changes no field of any block, except that a non-compact
\* block with key "keyid" may become its compact form, and then the current
\* RowGroup holds its previous blocks followed by the new block; a compact
\* block never changes again and at most one compacted keyid block exists.
C12_BlocksChangeOnlyByRetainedCompaction ==
  [][/\ \A i \in 1..Len(blocks) :
          \/ blocks'[i] = blocks[i]
          \/ /\ blocks[i].key = "keyid"
             /\ ~blocks[i].keyid_compact
             /\ blocks'[i] = [blocks[i] EXCEPT !.keyid_compact = TRUE,
                                               !.height = 3,
                                               !.width = @ - 8,
                                               !.content_width = @ - 8]
             /\ blocks_in_order(current_group')
                  = Append(blocks_in_order(current_group), block_index)
             /\ pc = "compact" /\ pc' = "loop"
     /\ Cardinality({i \in 1..Len(blocks') :
                       blocks'[i].key = "keyid" /\ blocks'[i].keyid_compact}) <= 1]_vars

\* a keyid3 block and a compacted keyid block in one sheet, with a block
\* added after the compaction
C12_Witness ==
  /\ pc = "loop"
  /\ SomeKeyidCompacted
  /\ \E i \in 1..Len(blocks) : blocks[i].key = "keyid3" /\ blocks[i].height = 3
  /\ \E i \in 1..Len(blocks) :
       /\ blocks[i].key = "keyid" /\ blocks[i].keyid_compact
       /\ Len(blocks) >= i + 2

\* C13: a step changes no RowGroup that was appended to the output, nor any
\* block such a RowGroup contains.
C13_FinalizedGroupsFrozen ==
  [][\A g \in 1..Len(groups) :
       /\ groups'[g] = groups[g]
       /\ \A i \in BlockSet(groups[g]) : get_block(blocks', i) = get_block(blocks, i)]_vars

\* a keyid block was compacted in the current RowGroup while a finalized
\* RowGroup with a keyid3 block exists
C13_Witness ==
  /\ pc = "loop"
  /\ Len(groups) >= 1
  /\ SomeKeyidCompacted
  /\ \E i \in BlockSet(groups[1]) : get_block(blocks, i).key = "keyid3"


\* content width and height a block specification must get: by key first,
\* then by data
ExpectedGeometry(b) ==
  IF b.key = "keyid" THEN <<18, 2, FALSE>>
  ELSE IF b.key = "keyid3" THEN <<10, 3, TRUE>>
  ELSE IF b.data = <<"g", "r", "i", "d", "3", "6">> THEN <<37, 30, FALSE>>
  ELSE IF b.data = <<"g", "r", "i", "d", "1", "0">> THEN <<10, 9, FALSE>>
  ELSE <<Len(b.data), 2, FALSE>>

\* C14: a newly constructed block has total width = content width + margins
\* and (content width, height) = (18, 2) for key keyid, (10, 3) and the
\* compact flag for keyid3, else (37, 30) for grid36, (10, 9) for grid10 and
\* (length of data, 2) otherwise; no block is wider than the table; HELLO
\* with margins 2/2 at table width 40 gives one RowGroup of one column of
\* width 9 and height 2.
C14_BlockGeometry ==
  /\ pc = "add" =>
       LET b == get_block(blocks, block_index)
       IN /\ block_index = Len(blocks) - 1
          /\ <<b.content_width, b.height, b.keyid_compact>> = ExpectedGeometry(b)
          /\ b.width = b.content_width + b.margin_left + b.margin_right
  /\ \A i \in 1..Len(blocks) : blocks[i].width <= table_width
  /\ (/\ pc \in {"render", "done"}
      /\ table_width = 40
      /\ Len(blocks) = 1
      /\ blocks[1].data = <<"H", "E", "L", "L", "O">>
      /\ blocks[1].key \notin {"keyid", "keyid3"}
      /\ blocks[1].margin_left = 2 /\ blocks[1].margin_right = 2) =>
       /\ Len(groups) = 1
       /\ groups[1].m_height = 2
       /\ groups[1].m_columns = <<[width |-> 9, height |-> 2, blocks |-> <<0>>]>>

\* Scenario A has been laid out and rendered
C14_Witness ==
  /\ pc = "done"
  /\ table_width = 40
  /\ Len(blocks) = 1
  /\ blocks[1].data = <<"H", "E", "L", "L", "O">>
  /\ blocks[1].margin_left = 2 /\ blocks[1].margin_right = 2
  /\ blocks[1].width = 9


\* C17: a direct add of a block no higher than a non-empty RowGroup appends
\* the block to the last column if that column has the height left and the
\* RowGroup with that column widened stays within the table width, else
\* opens a new last column if the width allows, else fails and changes
\* nothing; the columns before the last one are never changed.
C17_FixedHeightOnlyLastColumn ==
  [][(/\ pc = "add"
      /\ ~empty(current_group)
      /\ get_block(blocks, block_index).height <= current_group.m_height) =>
       LET cols == current_group.m_columns
           n == Len(cols)
           b == get_block(blocks, block_index)
           widened == IF cols[n].width >= b.width THEN cols[n].width ELSE b.width
           stack == /\ cols[n].height + b.height <= current_group.m_height
                    /\ width(current_group) - cols[n].width + widened <= table_width
           open == width(current_group) + b.width <= table_width
           after == current_group'.m_columns
       IN /\ current_group'.m_height = current_group.m_height
          /\ \A c \in 1..(n - 1) : after[c] = cols[c]
          /\ IF stack
             THEN /\ pc' = "loop"
                  /\ Len(after) = n
                  /\ after[n] = [width |-> widened,
                                 height |-> cols[n].height + b.height,
                                 blocks |-> Append(cols[n].blocks, block_index)]
             ELSE IF open
             THEN /\ pc' = "loop"
                  /\ Len(after) = n + 1
                  /\ after[n] = cols[n]
                  /\ after[n + 1] = [width |-> b.width, height |-> b.height,
                                     blocks |-> <<block_index>>]
             ELSE /\ pc' = "compact"
                  /\ current_group' = current_group]_vars

\* the last block went into a new last column although the first column had
\* the free height for it
C17_Witness ==
  /\ pc = "loop"
  /\ Len(current_group.m_columns) >= 3
  /\ last_column(current_group).blocks = <<block_index>>
  /\ current_group.m_columns[1].height + get_block(blocks, block_index).height
       <= current_group.m_height
  /\ get_block(blocks, block_index).height < current_group.m_height

RECURSIVE MaxWidthOf(_)
\* the largest current width of the blocks with the given indices
MaxWidthOf(idxs) ==
  IF Len(idxs) = 1 THEN get_block(blocks, idxs[1]).width
  ELSE LET m == MaxWidthOf(Tail(idxs))
           w == get_block(blocks, idxs[1]).width
       IN IF w >= m THEN w ELSE m

RECURSIVE SumHeightOf(_)
\* the current heights of the blocks with the given indices, added up
SumHeightOf(idxs) ==
  IF idxs = <<>> THEN 0
  ELSE get_block(blocks, idxs[1]).height + SumHeightOf(Tail(idxs))

RECURSIVE MaxHeightOf(_)
MaxHeightOf(idxs) ==
  IF Len(idxs) = 1 THEN get_block(blocks, idxs[1]).height
  ELSE LET m == MaxHeightOf(Tail(idxs))
           h == get_block(blocks, idxs[1]).height
       IN IF h >= m THEN h ELSE m

ColumnsMatchBlocks(rg) ==
  \A c \in 1..Len(rg.m_columns) :
    /\ rg.m_columns[c].blocks # <<>>
    /\ rg.m_columns[c].width = MaxWidthOf(rg.m_columns[c].blocks)
    /\ rg.m_columns[c].height = SumHeightOf(rg.m_columns[c].blocks)

\* C18: between packing steps and at render time every column's stored
\* width is the largest current width of its blocks and its stored height
\* the sum of their current heights.
C18_ColumnBookkeeping ==
  pc \in {"loop", "render", "done"} =>
    /\ ColumnsMatchBlocks(current_group)
    /\ \A g \in 1..Len(groups) : ColumnsMatchBlocks(groups[g])

\* the current RowGroup has a column made of a compacted keyid block, stored
\* with the compact width and height 3, next to other columns, and a
\* finalized RowGroup of several blocks exists
C18_Witness ==
  /\ pc = "loop"
  /\ Len(current_group.m_columns) >= 2
  /\ \E c \in 1..Len(current_group.m_columns) :
       /\ Len(current_group.m_columns[c].blocks) = 1
       /\ current_group.m_columns[c].height = 3
       /\ LET b == get_block(blocks, current_group.m_columns[c].blocks[1])
          IN b.key = "keyid" /\ b.keyid_compact
  /\ Len(groups) >= 1
  /\ Len(blocks_in_order(groups[1])) >= 2

HeightIsTallest(rg) ==
  ~empty(rg) =>
    /\ rg.m_height = MaxHeightOf(blocks_in_order(rg))
    /\ \E c \in 1..Len(rg.m_columns) : rg.m_columns[c].height = rg.m_height

\* C20: the height of the current RowGroup and of every output RowGroup is
\* the largest height of its blocks, and one of its columns has that height.
C20_HeightIsTallestBlock ==
  pc \in {"loop", "render", "done"} =>
    /\ HeightIsTallest(current_group)
    /\ \A g \in 1..Len(groups) : HeightIsTallest(groups[g])

\* a RowGroup grown to height 9 whose first column is lower, and a current
\* RowGroup of height 3 that holds a compacted keyid block
C20_Witness ==
  /\ pc = "loop"
  /\ \E g \in 1..Len(groups) :
       /\ groups[g].m_height = 9
       /\ groups[g].m_columns[1].height < 9
  /\ current_group.m_height = 3
  /\ \E i \in BlockSet(current_group) :
       get_block(blocks, i).key = "keyid" /\ get_block(blocks, i).keyid_compact


\* the cells the columns left of column c put on the row at row_offset
CellsLeftOf(rg, c, row_offset) ==
  Len(render_columns(SubSeq(rg.m_columns, 1, c - 1), row_offset, blocks).cells)

IsBlankCell(cell) == cell.text = "<br>"

\* C19: in the rendered rows of a grid36 block, the data row d (rows after
\* the header row counted from 0) with d % 5 = 4 consists of exactly two
\* cells, one single-character cell and one empty cell of colspan 36; every
\* other data row is the 37-cell symbol row.
C19_Grid36Separator ==
  pc = "done" =>
    \A g \in 1..Len(groups) : \A c \in 1..Len(groups[g].m_columns) :
      \A j \in 1..Len(groups[g].m_columns[c].blocks) :
        LET col == groups[g].m_columns[c]
            b == get_block(blocks, col.blocks[j])
            top == SumHeightOf(SubSeq(col.blocks, 1, j - 1))
        IN (b.data = <<"g", "r", "i", "d", "3", "6">> /\ b.key \notin {"keyid", "keyid3"}) =>
             \A d \in 0..(b.height - 2) :
               LET r == top + 1 + d
                   cells == output_file[RowItemIndex(g, r)].cells
                   at == CellsLeftOf(groups[g], c, r) + (IF b.margin_left > 0 THEN 1 ELSE 0)
                   end == CellsLeftOf(groups[g], c + 1, r)
                            - (IF b.margin_right > 0 THEN 1 ELSE 0)
                            - (IF col.width - b.width > 0 THEN 1 ELSE 0)
               IN /\ Len(cells) >= end
                  /\ b.margin_left > 0 => IsBlankCell(cells[at])
                  /\ b.margin_right > 0 => IsBlankCell(cells[end + 1])
                  /\ IF d % 5 = 4
                     THEN /\ end = at + 2
                          /\ cells[at + 1].colspan = 1 /\ cells[at + 1].text = "-"
                          /\ cells[at + 2].colspan = 36 /\ cells[at + 2].text = ""
                     ELSE /\ end = at + 37
                          /\ \A x \in 1..37 :
                               /\ cells[at + x].colspan = 1
                               /\ cells[at + x].text
                                    = (<<"-", "A", "B", "C", "D", "E", "F", "G", "H", "I",
                                         "J", "K", "L", "M", "N", "O", "P", "Q", "R", "S",
                                         "T", "U", "V", "W", "X", "Y", "Z", "0", "1", "2",
                                         "3", "4", "5", "6", "7", "8", "9">>)[x]

\* a sheet was rendered in which a grid36 block with margins stands in the
\* second column of its RowGroup
C19_Witness ==
  /\ pc = "done"
  /\ \E g \in 1..Len(groups) :
       /\ Len(groups[g].m_columns) >= 2
       /\ \E c \in 2..Len(groups[g].m_columns) :
            LET b == get_block(blocks, groups[g].m_columns[c].blocks[1])
            IN b.data = <<"g", "r", "i", "d", "3", "6">> /\ b.margin_left > 0

\* C15: laying out the same document twice gives the same layout: any two
\* sheets of one run that have the same table width and the same entries
\* in the same order get identical RowGroups (groups, columns, the blocks
\* of each column) and identical blocks (widths, heights, compact flags);
\* nothing left behind by an earlier sheet influences a later one.
C15_SameInputSameLayout ==
  \A a \in 1..Len(cout_log), b \in 1..Len(cout_log) :
     cout_log[a].input = cout_log[b].input
       => /\ cout_log[a].groups = cout_log[b].groups
          /\ cout_log[a].blocks = cout_log[b].blocks

\* the same two-block document, whose layout compacts the key id, was laid
\* out twice in one run
C15_Witness ==
  /\ Len(cout_log) = 2
  /\ cout_log[1].input = cout_log[2].input
  /\ Len(cout_log[2].blocks) = 2
  /\ \E i \in 1..2 : /\ cout_log[2].blocks[i].key = "keyid"
                      /\ cout_log[2].blocks[i].keyid_compact

InLayout == pc \in {"loop", "add", "compact", "newgroup", "render"}

\* C16: while a sheet is laid out g_blocks refers to the block list of that
\* call, which holds exactly the blocks built from that sheet's entries, and
\* every index kept in a RowGroup is an index into it; when the call has
\* returned or thrown g_blocks is back at the value it had before (nullptr).
C16_RegistryScopedToSheet ==
  /\ InLayout =>
       /\ g_blocks = "blocks"
       /\ m_prev = "nullptr"
       /\ Len(blocks) <= Len(sheet_j.entries)
       /\ \A i \in 1..Len(blocks) :
            /\ blocks[i].key = sheet_j.entries[i].key
            /\ blocks[i].data = sheet_j.entries[i].data.s
       /\ \A g \in 1..Len(groups) :
            \A i \in BlockSet(groups[g]) : 0 <= i /\ i < Len(blocks)
       /\ \A i \in BlockSet(current_group) : 0 <= i /\ i < Len(blocks)
  /\ ~InLayout => g_blocks = "nullptr"

\* the second sheet of a run threw while its second block was built, after
\* the first sheet had been laid out and written
C16_Witness ==
  /\ sheet_i = 1
  /\ pc = "error"
  /\ err = "margin must be an integer"
  /\ Len(cout_log) = 1
  /\ Len(cout_log[1].blocks) = 2
  /\ Len(blocks) = 1

\* the blocks as the rebuild loop of the compaction fallback sees them: the
\* key id in the last column of the current RowGroup in its compact form
MutatedForRebuild ==
  LET keyid_index == last_block_index(current_group)
  IN get_block_mut(blocks, keyid_index, compact_keyid(get_block(blocks, keyid_index)))

\* the replay of the blocks already in the current RowGroup
ReplayOfExisting ==
  rebuild_replay(RowGroup(table_width, 0), blocks_in_order(current_group),
                 MutatedForRebuild)

\* C21: whenever the current RowGroup meets the preconditions of the
\* compaction fallback, every rebuilt.add of a block already in the group
\* returns true, and the rebuilt group holds exactly those blocks in their
\* order; the fallback can therefore fail only on the add of the new block.
C21_ReplayOfExistingNeverFails ==
  compact_preconditions(current_group, blocks)
    => /\ ReplayOfExisting.ok
       /\ blocks_in_order(ReplayOfExisting.rg) = blocks_in_order(current_group)

\* the fallback is entered with three blocks in the current RowGroup, their
\* replay succeeds and the add of the new block fails
C21_Witness ==
  /\ pc = "compact"
  /\ compact_preconditions(current_group, blocks)
  /\ Len(blocks_in_order(current_group)) >= 3
  /\ ReplayOfExisting.ok
  /\ ~add(ReplayOfExisting.rg, block_index, MutatedForRebuild).ok

====
